---- MODULE Spec2Model ----
(***************************************************************************)
(* State-machine model of the accreditation portal's server:               *)
(*   - the route stacks of routes/criteria.js and routes/admin.js,         *)
(*   - the error-handling middleware chain of server.js,                   *)
(*   - the all-files aggregation pipeline of routes/admin.js,              *)
(*   - the graceful shutdown of server.js.                                 *)
(* One request is in flight at a time; it walks its route stack layer by   *)
(* layer, as Express does, and an error handed to next(err) walks the      *)
(* error-handling chain.                                                   *)
(***************************************************************************)
EXTENDS Integers, Sequences, FiniteSets, TLC

VARIABLES
  env,          \* process.env.NODE_ENV
  req,          \* the request in flight
  user,         \* req.user, set by the auth middleware
  pc,           \* "idle", "route", a name of ErrorChain, or "done"
  idx,          \* position of the next layer in the route stack
  trace,        \* the layers that ran for this request, in order
  err,          \* the error travelling along next(err)
  raised,       \* the error as it entered the error-handling chain
  responses,    \* the responses sent for this request
  headersSent,  \* res.headersSent
  storeReads,   \* queries of the CriteriaData collection made by this request
  records,      \* the CriteriaData collection
  users,        \* the users collection
  lastFiles,    \* data of the latest successful GET /api/admin/files
  prevFiles,    \* data of the one before
  calls,        \* successful GET /api/admin/files calls so far
  signals,      \* SIGTERM/SIGINT received
  conns,        \* open HTTP connections
  serverState,  \* "listening", "closing", "closed"
  closeCbs,     \* server.close callbacks waiting for the 'close' event
  dbState,      \* "open", "closing", "closed"
  dbCbs,        \* mongoose.connection.close callbacks waiting
  timers,       \* force-close timers pending
  exitCode,     \* -1 while the process runs, else the code given to process.exit
  exitedBy      \* which callback called process.exit

httpVars == <<env, req, user, pc, idx, trace, err, raised, responses, headersSent, storeReads>>
aggVars == <<records, users, lastFiles, prevFiles, calls>>
shutVars == <<signals, conns, serverState, closeCbs, dbState, dbCbs, timers, exitCode, exitedBy>>
vars == <<httpVars, aggVars, shutVars>>

(***************************************************************************)
(* Bounds of the model.                                                    *)
(***************************************************************************)
MaxUsers == 2
MaxName == 2
MaxCriteria == 2
MaxMetric == 2
MaxFiles == 1
MaxRecords == 2
MaxSignals == 3
MaxConns == 3

(***************************************************************************)
(* Principals and requests.                                                *)
(***************************************************************************)
Roles == {"user", "school_admin", "admin"}
Schools == {"Lincoln High", "Eastview"}
NoUser == [role |-> "none", school |-> "none"]
Principals == [role : Roles, school : Schools]

Environments == {"development", "production", "unset"}

Endpoints ==
  { "POST /api/criteria/save",
    "GET /api/criteria/admin/users",
    "GET /api/criteria/school/:school",
    "PUT /api/criteria/submit/:id",
    "GET /api/criteria/:criteriaNumber",
    "GET /api/admin/files",
    "GET /api/admin/test",
    "GET /health",
    "GET /api/test",
    "GET /nowhere" }

\* Requests that carry a JSON body.
BodyEndpoints == {"POST /api/criteria/save", "PUT /api/criteria/submit/:id"}

Requests ==
  { r \in [endpoint : Endpoints, cred : Principals \cup {NoUser},
           school : Schools \cup {"none"}, badBody : BOOLEAN] :
      /\ (r.school # "none") <=> (r.endpoint = "GET /api/criteria/school/:school")
      /\ r.badBody => r.endpoint \in BodyEndpoints }

NoRequest == [endpoint |-> "none", cred |-> NoUser, school |-> "none", badBody |-> FALSE]

(***************************************************************************)
(* Errors, by the fields the error handlers read.                          *)
(***************************************************************************)
ErrNames ==
  { "Error", "TypeError", "SyntaxError", "CloudinaryError", "MongoError",
    "MongooseError", "MongoNetworkError", "MongoServerError", "ValidationError",
    "CastError", "JsonWebTokenError", "TokenExpiredError" }

MulterCodes ==
  { "LIMIT_FILE_SIZE", "LIMIT_UNEXPECTED_FILE", "LIMIT_FILE_COUNT",
    "LIMIT_PART_COUNT", "LIMIT_FIELD_KEY" }

\* The names under which the MongoDB driver reports a server error such as E11000.
StorageErrorNames == {"MongoError", "MongoServerError"}

NoError ==
  [name |-> "none", isMulter |-> FALSE, code |-> "none", invalidFileType |-> FALSE,
   hasErrors |-> FALSE, hasKeyValue |-> FALSE]

Errors ==
  { [name |-> "MulterError", isMulter |-> TRUE, code |-> c, invalidFileType |-> FALSE,
     hasErrors |-> FALSE, hasKeyValue |-> FALSE] : c \in MulterCodes }
  \cup
  { e \in [name : ErrNames, isMulter : {FALSE}, code : {"none", "11000"},
           invalidFileType : BOOLEAN, hasErrors : BOOLEAN, hasKeyValue : BOOLEAN] :
      /\ e.hasErrors => e.name = "ValidationError"
      /\ e.hasKeyValue => e.code = "11000"
      /\ e.code = "11000" => (e.name \in StorageErrorNames /\ ~e.invalidFileType) }

\* What a handler throws when it reads a property of undefined.
ThrownTypeError == [NoError EXCEPT !.name = "TypeError"]

\* What express.json hands to next(err) for a body it cannot parse.
BodyParseError == [NoError EXCEPT !.name = "SyntaxError"]

(***************************************************************************)
(* Responses.                                                              *)
(***************************************************************************)
Response(status, success, by) ==
  [status |-> status, success |-> success, detail |-> FALSE, count |-> -1, by |-> by]

Send(r) ==
  /\ responses' = Append(responses, r)
  /\ headersSent' = TRUE
  /\ pc' = "done"

(***************************************************************************)
(* Route stacks.                                                           *)
(***************************************************************************)
CriteriaHandlers ==
  { "saveCriteriaData", "getAllUsersWithData", "getSchoolData",
    "submitCriteriaData", "getCriteriaData" }

CriteriaRoute(e) ==
  CASE e = "POST /api/criteria/save" -> <<"saveCriteriaData">>
    [] e = "GET /api/criteria/admin/users" -> <<"roleAuth", "getAllUsersWithData">>
    [] e = "GET /api/criteria/school/:school" -> <<"roleAuth", "getSchoolData">>
    [] e = "PUT /api/criteria/submit/:id" -> <<"submitCriteriaData">>
    [] e = "GET /api/criteria/:criteriaNumber" -> <<"getCriteriaData">>

CriteriaRouterStackNoAuth(e) == CriteriaRoute(e)

CriteriaRouterStack(e) == <<"auth">> \o CriteriaRoute(e)

AdminRouterStack(e) ==
  CASE e = "GET /api/admin/files" -> <<"auth", "adminAuth", "files">>
    [] e = "GET /api/admin/test" -> <<"adminTest">>

AppStack(e) ==
  <<"express.json">> \o
  ( CASE e \in {"GET /api/admin/files", "GET /api/admin/test"} -> AdminRouterStack(e)
      [] e = "GET /health" -> <<"health">>
      [] e = "GET /api/test" -> <<"apiTest">>
      [] e = "GET /nowhere" -> <<"notFound">>
      [] OTHER -> CriteriaRouterStack(e) )

\* The roles the route hands to roleAuth.
RequiredRoles(e) ==
  CASE e = "GET /api/criteria/admin/users" -> {"admin"}
    [] e = "GET /api/criteria/school/:school" -> {"admin"}
    [] OTHER -> {}

Layer ==
  IF pc = "route" /\ idx <= Len(AppStack(req.endpoint))
  THEN AppStack(req.endpoint)[idx]
  ELSE "none"

Ran(name) == trace' = Append(trace, name)

PassOn == /\ idx' = idx + 1
          /\ UNCHANGED <<pc, responses, headersSent>>

(***************************************************************************)
(* The error-handling chain, in the order app.use registers it.            *)
(***************************************************************************)
ErrorChainGenericFirst == <<"generic", "multer", "cloudinary", "database", "jwt">>

ErrorChain == <<"multer", "cloudinary", "database", "jwt", "generic">>

Position(h) == CHOOSE i \in 1..Len(ErrorChain) : ErrorChain[i] = h

\* next(err) from a route layer.
EnterChain(e) ==
  /\ err' = e
  /\ raised' = e
  /\ pc' = ErrorChain[1]
  /\ UNCHANGED <<responses, headersSent>>

\* next(e) from error handler h: the next error handler, or Express's default
\* handler after the last one (a bare 500 page, or nothing once headers are out).
Forward(h, e) ==
  /\ err' = e
  /\ IF Position(h) < Len(ErrorChain)
     THEN /\ pc' = ErrorChain[Position(h) + 1]
          /\ UNCHANGED <<responses, headersSent>>
     ELSE IF headersSent
          THEN /\ pc' = "done"
               /\ UNCHANGED <<responses, headersSent>>
          ELSE Send(Response(500, "absent", "express"))

(***************************************************************************)
(* Route layers.                                                           *)
(***************************************************************************)
Respond(r) == Send(r) /\ UNCHANGED <<idx, err, raised>>

Pass == PassOn /\ UNCHANGED <<err, raised>>

Fail(e) == EnterChain(e) /\ UNCHANGED idx

NewRequest(r) ==
  /\ pc \in {"idle", "done"}
  /\ req' = r
  /\ user' = NoUser
  /\ pc' = "route"
  /\ idx' = 1
  /\ trace' = <<>>
  /\ err' = NoError
  /\ raised' = NoError
  /\ responses' = <<>>
  /\ headersSent' = FALSE
  /\ storeReads' = 0
  /\ UNCHANGED <<env, aggVars, shutVars>>

\* express.json: passes the request on, or hands a parse error to next(err).
JsonBodyParser ==
  /\ Layer = "express.json"
  /\ Ran("express.json")
  /\ IF req.badBody THEN Fail(BodyParseError) ELSE Pass
  /\ UNCHANGED <<env, req, user, storeReads, aggVars, shutVars>>

\* The identity verifier: a principal, or Unauthenticated (401).
auth ==
  /\ Layer = "auth"
  /\ Ran("auth")
  /\ IF req.cred = NoUser
     THEN Respond(Response(401, "false", "auth")) /\ UNCHANGED user
     ELSE user' = req.cred /\ Pass
  /\ UNCHANGED <<env, req, storeReads, aggVars, shutVars>>

\* The role gate: admits iff the principal's role is one of the required roles.
RoleAdmits(principal, requiredRoles) == principal.role \in requiredRoles

roleAuth ==
  /\ Layer = "roleAuth"
  /\ Ran("roleAuth")
  /\ IF RoleAdmits(user, RequiredRoles(req.endpoint))
     THEN Pass
     ELSE Respond(Response(403, "false", "roleAuth"))
  /\ UNCHANGED <<env, req, user, storeReads, aggVars, shutVars>>

AdminAuthAdmitsAnyUser(u) == u # NoUser

AdminAuthAdmits(u) == ~(u = NoUser \/ u.role # "admin")

adminAuth ==
  /\ Layer = "adminAuth"
  /\ Ran("adminAuth")
  /\ IF AdminAuthAdmits(user)
     THEN Pass
     ELSE Respond(Response(403, "false", "adminAuth"))
  /\ UNCHANGED <<env, req, user, storeReads, aggVars, shutVars>>

\* schoolData: admin, or a school_admin of the requested school.
SchoolDataAllowed(principal, school) ==
  principal.role = "admin" \/ (principal.role = "school_admin" /\ principal.school = school)

ControllerStatuses == {400, 404, 500}

\* A controller of routes/criteria.js: it answers in the envelope, or hands an
\* error to next(err).
Controller ==
  /\ Layer \in CriteriaHandlers
  /\ Ran(Layer)
  /\ IF Layer = "getSchoolData" /\ ~SchoolDataAllowed(user, req.school)
     THEN /\ Respond(Response(403, "false", Layer))
          /\ UNCHANGED storeReads
     ELSE /\ storeReads' = storeReads + 1
          /\ \/ Respond(Response(200, "true", Layer))
             \/ \E st \in ControllerStatuses : Respond(Response(st, "false", Layer))
             \/ \E e \in Errors : Fail(e)
  /\ UNCHANGED <<env, req, user, aggVars, shutVars>>

adminTest ==
  /\ Layer = "adminTest"
  /\ Ran("adminTest")
  /\ Respond(Response(200, "absent", "adminTest"))
  /\ UNCHANGED <<env, req, user, storeReads, aggVars, shutVars>>

health ==
  /\ Layer = "health"
  /\ Ran("health")
  /\ Respond(Response(200, "true", "health"))
  /\ UNCHANGED <<env, req, user, storeReads, aggVars, shutVars>>

apiTest ==
  /\ Layer = "apiTest"
  /\ Ran("apiTest")
  /\ Respond(Response(200, "true", "apiTest"))
  /\ UNCHANGED <<env, req, user, storeReads, aggVars, shutVars>>

notFound ==
  /\ Layer = "notFound"
  /\ Ran("notFound")
  /\ Respond(Response(404, "false", "notFound"))
  /\ UNCHANGED <<env, req, user, storeReads, aggVars, shutVars>>

(***************************************************************************)
(* Error handlers.                                                         *)
(***************************************************************************)
MulterMatches(e) == e.isMulter \/ e.invalidFileType

MulterErrorHandler ==
  /\ pc = "multer"
  /\ Ran("multer")
  /\ IF MulterMatches(err)
     THEN Send(Response(400, "false", "multer")) /\ UNCHANGED err
     ELSE Forward("multer", err)
  /\ UNCHANGED <<env, req, user, idx, raised, storeReads, aggVars, shutVars>>

CloudinaryMatches(e) == e.name = "CloudinaryError"

CloudinaryErrorHandler ==
  /\ pc = "cloudinary"
  /\ Ran("cloudinary")
  /\ IF CloudinaryMatches(err)
     THEN Send(Response(500, "false", "cloudinary")) /\ UNCHANGED err
     ELSE Forward("cloudinary", err)
  /\ UNCHANGED <<env, req, user, idx, raised, storeReads, aggVars, shutVars>>

ConnectionErrorNames == {"MongoError", "MongooseError", "MongoNetworkError"}

DatabaseMatches(e) ==
  \/ e.name \in ConnectionErrorNames
  \/ e.name = "ValidationError"
  \/ e.name = "CastError"
  \/ e.code = "11000"

DatabaseErrorHandler ==
  /\ pc = "database"
  /\ Ran("database")
  /\ IF err.name \in ConnectionErrorNames
     THEN Send(Response(500, "false", "database")) /\ UNCHANGED err
     ELSE IF err.name = "ValidationError"
     THEN IF err.hasErrors
          THEN Send(Response(400, "false", "database")) /\ UNCHANGED err
          ELSE Forward("database", ThrownTypeError)
     ELSE IF err.name = "CastError"
     THEN Send(Response(400, "false", "database")) /\ UNCHANGED err
     ELSE IF err.code = "11000"
     THEN IF err.hasKeyValue
          THEN Send(Response(400, "false", "database")) /\ UNCHANGED err
          ELSE Forward("database", ThrownTypeError)
     ELSE Forward("database", err)
  /\ UNCHANGED <<env, req, user, idx, raised, storeReads, aggVars, shutVars>>

JwtMatches(e) == e.name \in {"JsonWebTokenError", "TokenExpiredError"}

JwtErrorHandler ==
  /\ pc = "jwt"
  /\ Ran("jwt")
  /\ IF JwtMatches(err)
     THEN Send(Response(401, "false", "jwt")) /\ UNCHANGED err
     ELSE Forward("jwt", err)
  /\ UNCHANGED <<env, req, user, idx, raised, storeReads, aggVars, shutVars>>

EchoDetailByDefault(e) == e \in {"development", "unset"}

\* process.env.NODE_ENV === 'development'
EchoDetail(e) == e = "development"

GenericErrorHandler ==
  /\ pc = "generic"
  /\ Ran("generic")
  /\ IF headersSent
     THEN Forward("generic", err)
     ELSE /\ Send([Response(500, "false", "generic") EXCEPT !.detail = EchoDetail(env)])
          /\ UNCHANGED err
  /\ UNCHANGED <<env, req, user, idx, raised, storeReads, aggVars, shutVars>>

(***************************************************************************)
(* The collections and the all-files aggregation of GET /api/admin/files.  *)
(***************************************************************************)
UserIds == 1..MaxUsers
Names == 1..MaxName

CriteriaRecords ==
  [owner : UserIds, criteriaNumber : 1..MaxCriteria, metricNumber : 1..MaxMetric,
   nfiles : 0..MaxFiles]

UserDocs == [id : UserIds, name : Names]

Range(f) == {f[i] : i \in DOMAIN f}

\* One record per (userId, criteriaNumber, metricNumber).
KeyUnique(recs) ==
  \A a, b \in recs :
    (a.owner = b.owner /\ a.criteriaNumber = b.criteriaNumber
       /\ a.metricNumber = b.metricNumber) => a = b

\* The contents of the CriteriaData collection with at most max records.
RecordSets(max) ==
  { rs \in UNION {{Range(f) : f \in [1..n -> CriteriaRecords]} : n \in 0..max} :
      KeyUnique(rs) }

\* _id is unique in the users collection.
UserSets(max) ==
  { us \in UNION {{Range(f) : f \in [1..n -> UserDocs]} : n \in 0..max} :
      \A a, b \in us : a.id = b.id => a = b }

\* $match: { 'files.0': { $exists: true } }
MatchStage(recs) == {r \in recs : r.nfiles > 0}

\* $lookup from users on userId = _id, then $unwind of userInfo, then $project.
LookupUnwindProject(recs, usrs) ==
  { [criteriaNumber |-> r.criteriaNumber, metricNumber |-> r.metricNumber,
     files |-> r.nfiles, user |-> u] :
      <<r, u>> \in {p \in recs \X usrs : p[2].id = p[1].owner} }

\* $sort: { criteriaNumber: 1, 'user.name': 1 }
SortKeyLeq(a, b) ==
  \/ a.criteriaNumber < b.criteriaNumber
  \/ a.criteriaNumber = b.criteriaNumber /\ a.user.name <= b.user.name

\* What $sort may return: every ordering of the rows that respects the sort key;
\* rows that tie on the key come in an order the server does not fix.
SortStage(rows) ==
  { s \in [1..Cardinality(rows) -> rows] :
      /\ \A i, j \in DOMAIN s : i # j => s[i] # s[j]
      /\ \A i, j \in DOMAIN s : i < j => SortKeyLeq(s[i], s[j]) }

Aggregate(recs, usrs) == SortStage(LookupUnwindProject(MatchStage(recs), usrs))

FilesHandler ==
  /\ Layer = "files"
  /\ Ran("files")
  /\ storeReads' = storeReads + 1
  /\ \/ \E criteriaFiles \in Aggregate(records, users) :
          /\ Respond([Response(200, "true", "files") EXCEPT !.count = Len(criteriaFiles)])
          /\ lastFiles' = criteriaFiles
          /\ prevFiles' = lastFiles
          /\ calls' = IF calls < 2 THEN calls + 1 ELSE calls
     \/ /\ Respond(Response(500, "false", "files"))
        /\ UNCHANGED <<lastFiles, prevFiles, calls>>
  /\ UNCHANGED <<env, req, user, records, users, shutVars>>

(***************************************************************************)
(* Graceful shutdown.                                                      *)
(***************************************************************************)
ConnectionOpens ==
  /\ exitCode = -1
  /\ serverState = "listening"
  /\ conns < MaxConns
  /\ conns' = conns + 1
  /\ UNCHANGED <<signals, serverState, closeCbs, dbState, dbCbs, timers, exitCode, exitedBy>>
  /\ UNCHANGED <<httpVars, aggVars>>

ConnectionEnds ==
  /\ exitCode = -1
  /\ conns > 0
  /\ conns' = conns - 1
  /\ UNCHANGED <<signals, serverState, closeCbs, dbState, dbCbs, timers, exitCode, exitedBy>>
  /\ UNCHANGED <<httpVars, aggVars>>

ForceTimersNone(t) == t

\* setTimeout(..., 10000): one more force-close timer pending.
ForceTimers(t) == t + 1

\* SIGTERM or SIGINT: server.close(callback), then the force-close timer is set.
gracefulShutdown ==
  /\ exitCode = -1
  /\ signals < MaxSignals
  /\ signals' = signals + 1
  /\ serverState' = IF serverState = "listening" THEN "closing" ELSE serverState
  /\ closeCbs' = closeCbs + 1
  /\ timers' = ForceTimers(timers)
  /\ UNCHANGED <<conns, dbState, dbCbs, exitCode, exitedBy>>
  /\ UNCHANGED <<httpVars, aggVars>>

\* The server's 'close' event, once no connection is left: every waiting
\* server.close callback runs and calls mongoose.connection.close(false, callback).
ServerClosed ==
  /\ exitCode = -1
  /\ serverState # "listening"
  /\ conns = 0
  /\ closeCbs > 0
  /\ serverState' = "closed"
  /\ dbState' = IF dbState = "open" THEN "closing" ELSE dbState
  /\ dbCbs' = dbCbs + closeCbs
  /\ closeCbs' = 0
  /\ UNCHANGED <<signals, conns, timers, exitCode, exitedBy>>
  /\ UNCHANGED <<httpVars, aggVars>>

\* The connection's close callback: process.exit(0).
MongoClosed ==
  /\ exitCode = -1
  /\ dbCbs > 0
  /\ dbState' = "closed"
  /\ exitCode' = 0
  /\ exitedBy' = "mongoose.close"
  /\ UNCHANGED <<signals, conns, serverState, closeCbs, dbCbs, timers>>
  /\ UNCHANGED <<httpVars, aggVars>>

\* The force-close timer: process.exit(1).
ForceClose ==
  /\ exitCode = -1
  /\ timers > 0
  /\ exitCode' = 1
  /\ exitedBy' = "timer"
  /\ UNCHANGED <<signals, conns, serverState, closeCbs, dbState, dbCbs, timers>>
  /\ UNCHANGED <<httpVars, aggVars>>

\* unhandledRejection / uncaughtException: process.exit(1).
FatalError ==
  /\ exitCode = -1
  /\ exitCode' = 1
  /\ exitedBy' = "fatal"
  /\ UNCHANGED <<signals, conns, serverState, closeCbs, dbState, dbCbs, timers>>
  /\ UNCHANGED <<httpVars, aggVars>>

(***************************************************************************)
(* Specifications.                                                         *)
(***************************************************************************)
InitHttp ==
  /\ env \in Environments
  /\ req = NoRequest
  /\ user = NoUser
  /\ pc = "idle"
  /\ idx = 1
  /\ trace = <<>>
  /\ err = NoError
  /\ raised = NoError
  /\ responses = <<>>
  /\ headersSent = FALSE
  /\ storeReads = 0

InitShutdown ==
  /\ signals = 0
  /\ conns = 0
  /\ serverState = "listening"
  /\ closeCbs = 0
  /\ dbState = "open"
  /\ dbCbs = 0
  /\ timers = 0
  /\ exitCode = -1
  /\ exitedBy = "none"

InitFiles ==
  /\ lastFiles = <<>>
  /\ prevFiles = <<>>
  /\ calls = 0

\* A fresh deployment: no criteria record, the default user of the seed.
Init ==
  /\ InitHttp
  /\ InitShutdown
  /\ InitFiles
  /\ records = {}
  /\ users = {[id |-> 1, name |-> 1]}

Next ==
  \/ \E r \in Requests : NewRequest(r)
  \/ JsonBodyParser
  \/ auth
  \/ roleAuth
  \/ adminAuth
  \/ Controller
  \/ FilesHandler
  \/ adminTest
  \/ health
  \/ apiTest
  \/ notFound
  \/ MulterErrorHandler
  \/ CloudinaryErrorHandler
  \/ DatabaseErrorHandler
  \/ JwtErrorHandler
  \/ GenericErrorHandler

Spec == Init /\ [][Next]_vars

\* The audit over any content of the two collections.
FilesRequests == {r \in Requests : r.endpoint = "GET /api/admin/files"}

InitAgg ==
  /\ InitHttp
  /\ InitShutdown
  /\ InitFiles
  /\ records \in RecordSets(MaxRecords)
  /\ users \in UserSets(MaxUsers)

NextAgg ==
  \/ \E r \in FilesRequests : NewRequest(r)
  \/ JsonBodyParser
  \/ auth
  \/ adminAuth
  \/ FilesHandler

SpecAgg == InitAgg /\ [][NextAgg]_vars

NextShutdown ==
  \/ ConnectionOpens
  \/ ConnectionEnds
  \/ gracefulShutdown
  \/ ServerClosed
  \/ MongoClosed
  \/ ForceClose
  \/ FatalError

SpecShutdown == Init /\ [][NextShutdown]_vars /\ WF_vars(ForceClose)

(***************************************************************************)
(* Properties.                                                             *)
(***************************************************************************)
Done == pc = "done"

OneResponse == Len(responses) = 1

\* C1: on GET /criteria/school/S a principal is admitted iff its role is admin,
\* or its role is school_admin and its school is S; every other principal is
\* answered Forbidden.
C1_SchoolDataAdmission ==
  (Done /\ req.endpoint = "GET /api/criteria/school/:school" /\ req.cred # NoUser)
    => /\ OneResponse
       /\ (responses[1].status = 403) <=> ~SchoolDataAllowed(req.cred, req.school)

AdminOnlyEndpoints == {"GET /api/admin/files", "GET /api/criteria/admin/users"}

GateOf(h) ==
  CASE h = "files" -> "adminAuth"
    [] h \in {"getAllUsersWithData", "getSchoolData"} -> "roleAuth"
    [] OTHER -> "none"

NotAdmin == req.cred = NoUser \/ req.cred.role # "admin"

\* The aggregate query or handler of an admin-only aggregation runs only after
\* its gate admitted an admin.
ReadsOnlyBehindGate ==
  (req.endpoint \in AdminOnlyEndpoints /\ storeReads > 0)
    => /\ req.cred # NoUser
       /\ req.cred.role = "admin"
       /\ \E i \in DOMAIN trace :
            trace[i] \in {"adminAuth", "roleAuth"} /\ i < Len(trace)

SurfaceHandlers == CriteriaHandlers \cup {"files"}

\* C3: a handler of the HTTP surface runs only after the verifier admitted the
\* request, and where a role gate is declared the gate ran between the two.
C3_VerifierGateHandler ==
  \A i \in DOMAIN trace :
    trace[i] \in SurfaceHandlers
      => /\ user # NoUser
         /\ \E j \in 1..(i - 1) :
              /\ trace[j] = "auth"
              /\ GateOf(trace[i]) # "none"
                   => \E k \in (j + 1)..(i - 1) : trace[k] = GateOf(trace[i])

C3_Witness ==
  /\ Done
  /\ trace = <<"express.json", "auth", "roleAuth", "getAllUsersWithData">>
  /\ OneResponse
  /\ responses[1].status = 200

\* C4: an error with code 11000 that reaches the error-handling chain is
\* answered with status 400 and success=false, whatever its name and other fields.
C4_DuplicateKeyIs400 ==
  (Done /\ raised.code = "11000")
    => /\ OneResponse
       /\ responses[1].status = 400
       /\ responses[1].success = "false"

\* C7: every response carries a boolean success field, false on an error
\* status and true otherwise.
C7_Envelope ==
  \A i \in DOMAIN responses :
    /\ responses[i].success \in {"true", "false"}
    /\ (responses[i].success = "false") <=> (responses[i].status >= 400)

Unclassified(e) ==
  /\ e # NoError
  /\ ~MulterMatches(e)
  /\ ~CloudinaryMatches(e)
  /\ ~DatabaseMatches(e)
  /\ ~JwtMatches(e)

\* C8: an error no classified handler matches is answered with 500 and
\* success=false, and the body carries the error's detail only when NODE_ENV is
\* development; no response carries it in production or with NODE_ENV unset.
C8_UnexpectedIs500 ==
  /\ (Done /\ Unclassified(raised))
       => /\ OneResponse
          /\ responses[1].status = 500
          /\ responses[1].success = "false"
          /\ responses[1].detail <=> (env = "development")
  /\ \A i \in DOMAIN responses : responses[i].detail => env = "development"

C8_Witness ==
  /\ Done
  /\ Unclassified(raised)
  /\ env = "unset"
  /\ OneResponse
  /\ responses[1].by = "generic"
  /\ ~responses[1].detail

\* The order the claim gives: upload, cloud storage, database, JWT, generic.
StatedOrder == <<"multer", "cloudinary", "database", "jwt", "generic">>

Matches(h, e) ==
  CASE h = "multer" -> MulterMatches(e)
    [] h = "cloudinary" -> CloudinaryMatches(e)
    [] h = "database" -> DatabaseMatches(e)
    [] h = "jwt" -> JwtMatches(e)
    [] OTHER -> TRUE

FirstMatch(e) ==
  StatedOrder[CHOOSE i \in DOMAIN StatedOrder :
                /\ Matches(StatedOrder[i], e)
                /\ \A j \in 1..(i - 1) : ~Matches(StatedOrder[j], e)]

\* The database handler fails while it builds its response.
HandlerFails(e) ==
  /\ FirstMatch(e) = "database"
  /\ e.name \notin ConnectionErrorNames
  /\ \/ e.name = "ValidationError" /\ ~e.hasErrors
     \/ e.name \notin {"ValidationError", "CastError"} /\ ~e.hasKeyValue

ChainPart ==
  SelectSeq(trace, LAMBDA h : h \in Range(StatedOrder))

\* C9: an error passed into the chain gets exactly one response, from the first
\* handler in the stated order whose condition matches (from the generic handler
\* if that handler fails); a handler that forwards has not responded, the handlers
\* run in the stated order, none runs after the responder, and the 404 handler
\* never runs for an error.
C9_ExactlyOneResponse ==
  /\ pc \in Range(StatedOrder) => responses = <<>>
  /\ (Done /\ raised # NoError)
       => /\ OneResponse
          /\ responses[1].by = (IF HandlerFails(raised) THEN "generic" ELSE FirstMatch(raised))
          /\ trace[Len(trace)] = responses[1].by
          /\ ChainPart = SubSeq(StatedOrder, 1, Len(ChainPart))
          /\ \A i \in DOMAIN trace : trace[i] # "notFound"

C9_Witness ==
  /\ Done
  /\ raised.name = "ValidationError"
  /\ ~raised.hasErrors
  /\ OneResponse
  /\ responses[1].by = "generic"
  /\ ChainPart = StatedOrder

Sorted(s) == \A i, j \in DOMAIN s : i < j => SortKeyLeq(s[i], s[j])

\* C5: the all-files view is sorted by criteriaNumber, then owner name, and two
\* calls against the same store contents return the rows in the same order.
C5_SortedAndRepeatable ==
  /\ calls >= 1 => Sorted(lastFiles)
  /\ calls >= 2 => lastFiles = prevFiles

RowsOf(r) ==
  { i \in DOMAIN lastFiles :
      /\ lastFiles[i].user.id = r.owner
      /\ lastFiles[i].criteriaNumber = r.criteriaNumber
      /\ lastFiles[i].metricNumber = r.metricNumber }

\* C6: the all-files view holds exactly one row for every record with a
\* non-empty files list, none for a record without files, and the count is the
\* number of records with files.
C6_EveryRecordWithFiles ==
  (calls >= 1 /\ Done /\ OneResponse /\ responses[1].by = "files" /\ responses[1].status = 200)
    => /\ \A r \in records :
            Cardinality(RowsOf(r)) = (IF r.nfiles > 0 THEN 1 ELSE 0)
       /\ responses[1].count = Cardinality({r \in records : r.nfiles > 0})

ShutdownOrder ==
  /\ dbState # "open" => serverState = "closed"
  /\ exitCode = 0 => (serverState = "closed" /\ dbState = "closed" /\ exitedBy = "mongoose.close")
  /\ exitedBy = "timer" => exitCode = 1

\* C10: after a signal the process eventually exits; it exits with 0 only after
\* the HTTP server closed and then the database connection closed, the database
\* close never starts before the server's close completed, the timer exits with
\* 1, and further signals do not prevent the exit.
C10_ShutdownExits ==
  /\ []ShutdownOrder
  /\ (signals > 0) ~> (exitCode # -1)

C10_Witness ==
  /\ signals >= 2
  /\ exitCode = 0
  /\ exitedBy = "mongoose.close"

====
